---- MODULE Spec2Model ----
(***************************************************************************)
(* Model of crates/gen/src/struct.rs: Struct::from_type_name builds the    *)
(* structural model of one metadata type definition (and, recursively, of  *)
(* its nested anonymous definitions); Struct::gen emits its declarations.  *)
(*                                                                         *)
(* Strings are sequences of one-character strings, so that format!() and   *)
(* starts_with() are computed as the code computes them.  A TokenStream is *)
(* a sequence of items, one record per emitted declaration.                *)
(***************************************************************************)
EXTENDS Integers, Sequences, FiniteSets, TLC

VARIABLES type_def, debug_assertions, pc, struct, tokens

vars == <<type_def, debug_assertions, pc, struct, tokens>>

(* Bounds of the metadata the model is run on. *)
MaxFields == 3
MaxNested == 2

-----------------------------------------------------------------------------
(* Strings *)

Digits == <<"0", "1", "2", "3", "4", "5", "6", "7", "8", "9">>

(* The decimal text of n, as format!("{}", n) writes it. *)
RECURSIVE Dec(_)
Dec(n) == IF n < 10 THEN <<Digits[n + 1]>>
          ELSE Dec(n \div 10) \o <<Digits[(n % 10) + 1]>>

(* str::starts_with *)
starts_with(s, prefix) ==
    /\ Len(s) >= Len(prefix)
    /\ SubSeq(s, 1, Len(prefix)) = prefix

(* The characters of the names below, in ascending byte order (the order   *)
(* of str's Ord, which a BTreeMap keyed by &str iterates in).              *)
Ascii == <<"0", "1", "2", "3", "4", "5", "6", "7", "8", "9",
           "A", "C", "H", "M", "N", "T", "X", "_",
           "a", "b", "c", "d", "e", "k", "l", "m", "n", "o", "p", "r",
           "t", "u", "v", "w">>

Rank(c) == CHOOSE i \in 1..Len(Ascii) : Ascii[i] = c

RECURSIVE StrLess(_, _)
StrLess(a, b) ==
    IF b = <<>> THEN FALSE
    ELSE IF a = <<>> THEN TRUE
    ELSE IF a[1] # b[1] THEN Rank(a[1]) < Rank(b[1])
    ELSE StrLess(Tail(a), Tail(b))

(* BTreeMap::values: the values of a map in ascending key order. *)
RECURSIVE values(_)
values(map) ==
    IF DOMAIN map = {} THEN <<>>
    ELSE LET k == CHOOSE x \in DOMAIN map :
                      \A y \in DOMAIN map \ {x} : StrLess(x, y)
         IN  <<map[k]>> \o values([y \in DOMAIN map \ {k} |-> map[y]])

ToLower == [c \in {"C", "H", "N"} |->
               IF c = "C" THEN "c" ELSE IF c = "H" THEN "h" ELSE "n"]

is_uppercase(c) == c \in DOMAIN ToLower

is_lowercase(c) == Rank(c) >= Rank("a")

(* to_snake: the metadata field name in lowercase-with-separators form: a  *)
(* capital is lowered, and separated from a lowercase letter before it.    *)
RECURSIVE to_snake_chars(_, _)
to_snake_chars(camel, i) ==
    IF i > Len(camel) THEN <<>>
    ELSE LET c == camel[i]
             sep == IF is_uppercase(c) /\ i > 1 /\ is_lowercase(camel[i - 1])
                    THEN <<"_">> ELSE <<>>
             low == IF is_uppercase(c) THEN ToLower[c] ELSE c
         IN  sep \o <<low>> \o to_snake_chars(camel, i + 1)

to_snake(camel) == to_snake_chars(camel, 1)

-----------------------------------------------------------------------------
(* Metadata: what the reader and the type resolver hand to the code *)

(* TypeGuid::default(), the absent GUID, and a GUID read from an attribute *)
TypeGuidDefault == "00000000-0000-0000-0000-000000000000"
SomeGuid == "6b29fc40-ca47-1067-b31d-00dd010662da"

NoValue == "None"

Kind(tag, winrt) == [tag |-> tag, winrt |-> winrt]

Type(kind, pointers) == [kind |-> kind, pointers |-> pointers]

(* An instance field, with the Type that Type::from_field resolves it to. *)
InstanceField(name, t) ==
    [name |-> name, literal |-> FALSE, constant |-> NoValue, t |-> t]

(* A literal field, with the constant it carries (or none); its type is   *)
(* never resolved.                                                         *)
LiteralField(name, constant) ==
    [name |-> name, literal |-> TRUE, constant |-> constant,
     t |-> Type(Kind(NoValue, FALSE), 0)]

(* The fields a definition's field list is drawn from.  The resolver gives *)
(* a callback field one level of indirection (win32metadata issue 132).    *)
FieldPalette ==
    { InstanceField(<<"C", "o", "u", "n", "t">>, Type(Kind("I32", FALSE), 0)),
      InstanceField(<<"c", "o", "u", "n", "t">>, Type(Kind("I32", FALSE), 1)),
      InstanceField(<<"c", "o", "u", "n", "t", "2">>, Type(Kind("U8", FALSE), 0)),
      InstanceField(<<"l", "p", "N", "a", "m", "e">>, Type(Kind("String", FALSE), 0)),
      InstanceField(<<"C", "a", "l", "l", "b", "a", "c", "k">>,
                    Type(Kind("Delegate", FALSE), 1)),
      InstanceField(<<"H", "a", "n", "d", "l", "e", "r">>,
                    Type(Kind("Delegate", TRUE), 0)),
      LiteralField(<<"M", "A", "X">>, "1"),
      LiteralField(<<"c", "o", "u", "n", "t">>, NoValue) }

FieldLists(palette, n) == UNION {[1..k -> palette] : k \in 0..n}

(* Names of nested definitions: generated (anonymous) ones, whose key      *)
(* order is the reverse of their declaration order, and declared ones.     *)
GeneratedName(i) == <<"_", "a">> \o Dec(9 - i)
DeclaredName(i) == <<"N", "a", "m", "e", "d">> \o Dec(i)

TypeDef(name, explicit, winrt, typedef, guid, fields, nested) ==
    [name |-> name, explicit |-> explicit, winrt |-> winrt,
     typedef |-> typedef, guid |-> guid, fields |-> fields, nested |-> nested]

(* The i-th nested definition of its enclosing definition. *)
NestedDef(i, explicit, generated, fields, nested) ==
    TypeDef(IF generated THEN GeneratedName(i) ELSE DeclaredName(i),
            explicit, FALSE, FALSE, TypeGuidDefault, fields, nested)

(* The nested definitions of a nested definition: none, or one that has   *)
(* no fields and nests nothing.                                            *)
LeafLists ==
    {<<>>} \cup { <<NestedDef(1, e, generated, <<>>, <<>>)>> :
                    e \in BOOLEAN, generated \in BOOLEAN }

(* Nested definitions of the top definition: the first may nest further. *)
ChildLists ==
    UNION { { [i \in 1..k |->
                 NestedDef(i, f[i][1], f[i][2],
                           <<InstanceField(<<"C", "o", "u", "n", "t">>,
                                           Type(Kind("I32", FALSE), 0))>>,
                           IF i = 1 THEN g ELSE <<>>)] :
                f \in [1..k -> BOOLEAN \X BOOLEAN], g \in LeafLists } :
            k \in 1..MaxNested }

TopName == <<"T">>

(* Definitions without nested definitions, over every field list. *)
FlatDefs ==
    { TypeDef(TopName, e, w, t, g, fs, <<>>) :
        e \in BOOLEAN, w \in BOOLEAN, t \in BOOLEAN,
        g \in {TypeGuidDefault, SomeGuid},
        fs \in FieldLists(FieldPalette, MaxFields) }

(* The field lists of the definitions that nest others. *)
NestingFieldLists ==
    { <<>>,
      <<InstanceField(<<"C", "o", "u", "n", "t">>, Type(Kind("I32", FALSE), 0))>>,
      <<InstanceField(<<"l", "p", "N", "a", "m", "e">>,
                      Type(Kind("String", FALSE), 0))>>,
      <<LiteralField(<<"M", "A", "X">>, "1"),
        InstanceField(<<"C", "o", "u", "n", "t">>, Type(Kind("I32", FALSE), 0))>> }

(* Definitions with nested definitions, two levels deep. *)
NestingDefs ==
    { TypeDef(TopName, e, FALSE, t, g, fs, n) :
        e \in BOOLEAN, t \in BOOLEAN,
        g \in {TypeGuidDefault, SomeGuid},
        fs \in NestingFieldLists,
        n \in ChildLists }

TypeDefs == FlatDefs \cup NestingDefs

(* TypeName: the name a definition is generated under, and the definition *)
TypeName(name, def) == [name |-> name, def |-> def]


-----------------------------------------------------------------------------
(* Struct::from_type_name *)

(* TypeName::struct_signature, the runtime signature of a WinRT struct *)
struct_signature(name) ==
    <<"s", "t", "r", "u", "c", "t", "(">> \o name.name \o <<")">>

(* As debug_assert_panics, were the assertion an assert!, compiled into    *)
(* every build.                                                            *)
assert_panics(debug, def_name) == ~starts_with(def_name, <<"_">>)

(* The debug_assert! on a nested definition's metadata name: compiled in   *)
(* only when the build has debug assertions, and then a failure panics.    *)
debug_assert_panics(debug, def_name) ==
    debug /\ ~starts_with(def_name, <<"_">>)

(* As nested_name, were the index taken after the insertion. *)
nested_name_from_one(name, nested) ==
    name.name \o <<"_">> \o Dec(Cardinality(DOMAIN nested) + 1)

(* format!("{}_{}", name.name, nested.len()) *)
nested_name(name, nested) ==
    name.name \o <<"_">> \o Dec(Cardinality(DOMAIN nested))

(* BTreeMap::insert: a value already under the key is replaced. *)
insert(map, key, value) ==
    [k \in DOMAIN map \cup {key} |-> IF k = key THEN value ELSE map[k]]

(* The loop that finds the first unused suffixed name, counting up from   *)
(* unique_count + 1.                                                       *)
RECURSIVE unique_loop(_, _, _)
(* As unique_loop, were the suffixed name taken without looking it up. *)
unique_loop_once(unique, field_name, unique_count) ==
    field_name \o Dec(unique_count + 1)

unique_loop(unique, field_name, unique_count) ==
    LET count == unique_count + 1
        unique_field_name == field_name \o Dec(count)
    IN  IF unique_field_name \notin unique THEN unique_field_name
        ELSE unique_loop(unique, field_name, count)

(* As unique_field_name, were unique_count to start at 0. *)
unique_field_name_from_zero(unique, field_name) ==
    IF field_name \notin unique THEN field_name
    ELSE unique_loop(unique, field_name, 0)

(* The name a field is stored under, given the names stored before it. *)
unique_field_name(unique, field_name) ==
    IF field_name \notin unique THEN field_name
    ELSE unique_loop(unique, field_name, 1)

(* The workaround for win32metadata issue 132 *)
delegate_fix(t) ==
    IF t.kind.tag = "Delegate" THEN [t EXCEPT !.pointers = 0] ELSE t

(* The loop over the definition's fields, from field i on; acc holds the   *)
(* fields, the constants and the set of names pushed so far.               *)
RECURSIVE fields_loop(_, _, _)
fields_loop(def_fields, i, acc) ==
    IF i > Len(def_fields) THEN acc
    ELSE LET field == def_fields[i] IN
         IF field.literal
         THEN IF field.constant # NoValue
              THEN fields_loop(def_fields, i + 1,
                       [acc EXCEPT !.constants =
                           Append(@, <<field.name, [value |-> field.constant]>>)])
              ELSE fields_loop(def_fields, i + 1, acc)
         ELSE LET t == delegate_fix(field.t)
                  field_name == unique_field_name(acc.unique, to_snake(field.name))
              IN  fields_loop(def_fields, i + 1,
                      [acc EXCEPT !.unique = @ \cup {field_name},
                                  !.fields = Append(@, <<field_name, t>>)])

(* As padded, were the GUID not looked at. *)
padded_whatever_guid(fields, guid) ==
    IF fields = <<>>
    THEN <<<<<<"r", "e", "s", "e", "r", "v", "e", "d">>,
             Type(Kind("U8", FALSE), 0)>>>>
    ELSE fields

(* The C/C++ ABI assumes an empty struct occupies a single byte in memory. *)
padded(fields, guid) ==
    IF fields = <<>> /\ guid = TypeGuidDefault
    THEN <<<<<<"r", "e", "s", "e", "r", "v", "e", "d">>,
             Type(Kind("U8", FALSE), 0)>>>>
    ELSE fields

Panic == [panicked |-> TRUE]

RECURSIVE from_type_name(_, _)
RECURSIVE nested_loop(_, _, _, _)

(* The loop over the nested definitions, from the i-th on. *)
nested_loop(name, debug, i, nested) ==
    IF i > Len(name.def.nested) THEN [panicked |-> FALSE, nested |-> nested]
    ELSE LET def == name.def.nested[i] IN
         IF debug_assert_panics(debug, def.name) THEN Panic
         ELSE LET def_name == TypeName(nested_name(name, nested), def)
                  child == from_type_name(def_name, debug)
              IN  IF child = Panic THEN Panic
                  ELSE nested_loop(name, debug, i + 1,
                                   insert(nested, def.name, child))

from_type_name(name, debug) ==
    LET signature == IF name.def.winrt THEN struct_signature(name) ELSE <<>>
        nested == nested_loop(name, debug, 1, <<>>)
    IN  IF nested = Panic THEN Panic
        ELSE LET acc == fields_loop(name.def.fields, 1,
                            [fields |-> <<>>, constants |-> <<>>, unique |-> {}])
                 guid == name.def.guid
             IN  [name |-> name,
                  fields |-> padded(acc.fields, guid),
                  constants |-> acc.constants,
                  signature |-> signature,
                  is_typedef |-> name.def.typedef,
                  guid |-> guid,
                  nested |-> nested.nested]

-----------------------------------------------------------------------------
(* Struct::gen.  A field is referred to by an identifier or by a 0-based   *)
(* position; a string literal is a label, not a reference.                 *)

format_ident(name) == [ident |-> name]

u32_unsuffixed(index) == [index |-> index]

(* enumerate() counts from 0 *)
enumerate(i) == i - 1

(* TypeKind::is_blittable: a kind that a raw copy duplicates *)
is_blittable(kind) == kind.tag \in {"U8", "I32"}

(* A callback that is not a WinRT delegate *)
is_fn_pointer(t) == t.kind.tag = "Delegate" /\ ~t.kind.winrt

(* As has_guid, were the GUID never found present. *)
has_guid_never(s) == FALSE

(* self.guid != TypeGuid::default() *)
has_guid(s) == s.guid # TypeGuidDefault

(* The aggregate's body: positional for a typedef, named otherwise *)
body(s) ==
    IF s.is_typedef
    THEN [tuple |-> TRUE,
          fields |-> [i \in 1..Len(s.fields) |->
                         [gen_field |-> s.fields[i][2]]]]
    ELSE [tuple |-> FALSE,
          fields |-> [i \in 1..Len(s.fields) |->
                         [name |-> format_ident(s.fields[i][1]),
                          gen_field |-> s.fields[i][2]]]]

(* The body of default(): each field, in order, with its default value *)
defaults(s) ==
    IF s.is_typedef
    THEN [i \in 1..Len(s.fields) |->
             [field |-> u32_unsuffixed(enumerate(i)),
              gen_default |-> s.fields[i][2]]]
    ELSE [i \in 1..Len(s.fields) |->
             [field |-> format_ident(s.fields[i][1]),
              gen_default |-> s.fields[i][2]]]

(* The .field(..) calls of fmt(): every field but the function pointers *)
debug_fields(s) ==
    LET kept == SelectSeq([i \in 1..Len(s.fields) |-> i],
                          LAMBDA i : ~is_fn_pointer(s.fields[i][2]))
    IN  [j \in 1..Len(kept) |->
            [label |-> s.fields[kept[j]][1],
             field |-> IF s.is_typedef
                       THEN u32_unsuffixed(enumerate(kept[j]))
                       ELSE format_ident(s.fields[kept[j]][1])]]

(* The constants of the impl block *)
constants(s) ==
    [i \in 1..Len(s.constants) |->
        [name |-> format_ident(s.constants[i][1]),
         value |-> s.constants[i][2]]]

(* The conjuncts of eq(): a function pointer is compared by address *)
compare_fields(s) ==
    IF s.fields = <<>> THEN <<[literal |-> "true"]>>
    ELSE [i \in 1..Len(s.fields) |->
             IF is_fn_pointer(s.fields[i][2])
             THEN [compare |-> "as usize",
                   field |-> format_ident(s.fields[i][1])]
             ELSE IF s.is_typedef
             THEN [compare |-> "==",
                   field |-> u32_unsuffixed(enumerate(i))]
             ELSE [compare |-> "==",
                   field |-> format_ident(s.fields[i][1])]]

(* The fields of the shadow aggregate *)
abi(s) == [i \in 1..Len(s.fields) |-> [gen_abi |-> s.fields[i][2]]]

runtime_type(s) ==
    IF s.signature = <<>> THEN <<>>
    ELSE <<[item |-> "impl RuntimeType", name |-> s.name.name,
            signature |-> s.signature]>>

(* As copy, were the marker emitted whatever the fields. *)
copy_always(s) == <<[item |-> "impl Copy", name |-> s.name.name]>>

copy(s) ==
    IF \A i \in 1..Len(s.fields) : is_blittable(s.fields[i][2].kind)
    THEN <<[item |-> "impl Copy", name |-> s.name.name]>>
    ELSE <<>>

(* self.name.def.flags().explicit() *)
explicit(s) == s.name.def.explicit

(* As any_nested_explicit, were the nested models not looked at. *)
any_nested_explicit_never(s) == FALSE

(* self.nested.values().any(|nested| nested.name.def.flags().explicit()) *)
any_nested_explicit(s) ==
    \E k \in DOMAIN s.nested : explicit(s.nested[k])

RECURSIVE gen(_)

(* #(#nested)*: what gen emits for each nested model, in key order *)
RECURSIVE gen_all(_)
gen_all(structs) ==
    IF structs = <<>> THEN <<>>
    ELSE gen(Head(structs)) \o gen_all(Tail(structs))

gen(s) ==
    LET name == s.name.name
        abi_ident == name \o <<"_", "a", "b", "i">>
        nested == gen_all(values(s.nested))
    IN  IF has_guid(s)
        THEN <<[item |-> "const", name |-> name, value |-> s.guid]>>
        ELSE IF explicit(s)
        THEN <<[item |-> "union", name |-> name, body |-> body(s)]>>
             \o nested
             \o copy(s)
        ELSE IF any_nested_explicit(s)
        THEN <<[item |-> "struct", name |-> name, body |-> body(s)],
               [item |-> "impl", name |-> name, constants |-> constants(s)]>>
             \o nested
             \o copy(s)
        ELSE <<[item |-> "struct", name |-> name, body |-> body(s)],
               [item |-> "abi struct", name |-> name, ident |-> abi_ident,
                fields |-> abi(s)],
               [item |-> "impl", name |-> name, constants |-> constants(s)],
               [item |-> "impl Abi", name |-> name, abi |-> abi_ident],
               [item |-> "impl Default", name |-> name,
                defaults |-> defaults(s)],
               [item |-> "impl Debug", name |-> name, debug_name |-> name,
                debug_fields |-> debug_fields(s)],
               [item |-> "impl PartialEq", name |-> name,
                compare_fields |-> compare_fields(s)],
               [item |-> "impl Eq", name |-> name]>>
             \o copy(s)
             \o runtime_type(s)
             \o nested

-----------------------------------------------------------------------------
(* The program: read one definition, build its model, emit it *)

Init ==
    /\ type_def \in TypeDefs
    /\ debug_assertions \in BOOLEAN
    /\ pc = "metadata"
    /\ struct = NoValue
    /\ tokens = <<>>

(* from_type_name returns the model *)
Build ==
    /\ pc = "metadata"
    /\ LET s == from_type_name(TypeName(type_def.name, type_def), debug_assertions)
       IN  /\ s # Panic
           /\ struct' = s
    /\ pc' = "built"
    /\ UNCHANGED <<type_def, debug_assertions, tokens>>

(* from_type_name panics: no model is returned *)
BuildPanics ==
    /\ pc = "metadata"
    /\ from_type_name(TypeName(type_def.name, type_def), debug_assertions) = Panic
    /\ pc' = "panicked"
    /\ UNCHANGED <<type_def, debug_assertions, struct, tokens>>

(* gen emits the model's declarations *)
Gen ==
    /\ pc = "built"
    /\ tokens' = gen(struct)
    /\ pc' = "generated"
    /\ UNCHANGED <<type_def, debug_assertions, struct>>

Next == Build \/ BuildPanics \/ Gen

Spec == Init /\ [][Next]_vars

-----------------------------------------------------------------------------
(* Vocabulary of the properties *)

(* A model and the models nested in it, at every depth *)
RECURSIVE Closure(_)
Closure(s) == {s} \cup UNION {Closure(s.nested[k]) : k \in DOMAIN s.nested}

Built == pc \in {"built", "generated"}

(* The definition has explicit layout; one nested in it, at any depth, has *)
ExplicitLayout(s) == s.name.def.explicit

RECURSIVE ExplicitBelow(_)
ExplicitBelow(s) ==
    \E k \in DOMAIN s.nested :
        ExplicitLayout(s.nested[k]) \/ ExplicitBelow(s.nested[k])

ExplicitChild(s) == \E k \in DOMAIN s.nested : ExplicitLayout(s.nested[k])

GuidAbsent(s) == s.guid = TypeGuidDefault

(* The emitted stream holds the declaration `item` of model s *)
Emitted(s, item) ==
    \E i \in 1..Len(tokens) :
        tokens[i].item = item /\ tokens[i].name = s.name.name

AllBlittable(s) ==
    \A i \in 1..Len(s.fields) : s.fields[i][2].kind.tag \in {"U8", "I32"}

(* Default construction, equality, formatting and the shadow aggregate *)
Derived ==
    {"impl Default", "impl PartialEq", "impl Eq", "impl Debug",
     "abi struct", "impl Abi"}

InstanceFields(def) == SelectSeq(def.fields, LAMBDA f : ~f.literal)

FieldNames(s) == [i \in 1..Len(s.fields) |-> s.fields[i][1]]

RawNames(def) == [i \in 1..Len(def.fields) |-> def.fields[i].name]

Reserved == <<"r", "e", "s", "e", "r", "v", "e", "d">>

(* A definition nested in def, at any depth, has a name that is not of the *)
(* generated pattern                                                       *)
RECURSIVE DeclaredNameBelow(_)
DeclaredNameBelow(def) ==
    \E i \in 1..Len(def.nested) :
        \/ def.nested[i].name[1] # "_"
        \/ DeclaredNameBelow(def.nested[i])

-----------------------------------------------------------------------------
C2_GuidShortCircuit ==
    pc = "generated" /\ ~GuidAbsent(struct) =>
        tokens = <<[item |-> "const", name |-> struct.name.name,
                    value |-> struct.guid]>>

(* C2 witness: a model with a GUID, explicit layout, fields, constants and *)
(* nested models has been emitted.                                         *)
C2_Witness ==
    /\ pc = "generated"
    /\ ~GuidAbsent(struct)
    /\ ExplicitLayout(struct)
    /\ struct.is_typedef
    /\ struct.fields # <<>>
    /\ struct.constants # <<>>
    /\ DOMAIN struct.nested # {}
    /\ Len(tokens) = 1

(* C3 as stated: in every emission shape, the copy marker is emitted       *)
(* exactly when every field of the model is blittable.                     *)
C3_CopyGatingAsStated ==
    pc = "generated" =>
        (Emitted(struct, "impl Copy") <=> AllBlittable(struct))

(* C3 as amended: the copy marker of a model, and of each model nested in  *)
(* it, is emitted exactly when the emitted model has no GUID and every     *)
(* field of the marked model is blittable.                                 *)
C3_CopyGating ==
    pc = "generated" =>
        \A s \in Closure(struct) :
            Emitted(s, "impl Copy") <=> (GuidAbsent(struct) /\ AllBlittable(s))

(* C3 witness: a union whose fields are all blittable has been emitted     *)
(* with its copy marker.                                                   *)
C3_Witness ==
    /\ pc = "generated"
    /\ GuidAbsent(struct)
    /\ ExplicitLayout(struct)
    /\ Len(struct.fields) > 1
    /\ AllBlittable(struct)
    /\ Emitted(struct, "union")
    /\ Emitted(struct, "impl Copy")

(* C4: the field identifiers of a built model, and of every model nested   *)
(* in it, are pairwise distinct.                                           *)
C4_Uniqueness ==
    Built =>
        \A s \in Closure(struct) :
            \A i, j \in 1..Len(s.fields) :
                i # j => s.fields[i][1] # s.fields[j][1]

(* C4 witness: the raw names count, count2, count have been built into     *)
(* three distinct identifiers.                                             *)
C4_Witness ==
    /\ pc = "built"
    /\ RawNames(type_def) = << <<"c", "o", "u", "n", "t">>,
                               <<"c", "o", "u", "n", "t", "2">>,
                               <<"c", "o", "u", "n", "t">> >>
    /\ \A i \in 1..Len(type_def.fields) : ~type_def.fields[i].literal
    /\ FieldNames(struct) = << <<"c", "o", "u", "n", "t">>,
                               <<"c", "o", "u", "n", "t", "2">>,
                               <<"c", "o", "u", "n", "t", "3">> >>

(* C5: a definition without instance fields and without GUID is built with *)
(* exactly the field `reserved`, one byte wide and not a pointer; any other *)
(* definition is built with its instance fields and no synthetic one; so a *)
(* built model without GUID has fields.                                    *)
C5_Padding ==
    Built =>
        \A s \in Closure(struct) :
            LET instance == InstanceFields(s.name.def) IN
            /\ instance = <<>> /\ GuidAbsent(s) =>
                   s.fields = <<<<Reserved, [kind |-> [tag |-> "U8", winrt |-> FALSE],
                                             pointers |-> 0]>>>>
            /\ instance # <<>> \/ ~GuidAbsent(s) =>
                   Len(s.fields) = Len(instance)
            /\ GuidAbsent(s) => s.fields # <<>>

(* C5 witness: a definition with only literal fields and no GUID has been  *)
(* built with the one field `reserved`.                                    *)
C5_Witness ==
    /\ pc = "built"
    /\ GuidAbsent(struct)
    /\ type_def.fields # <<>>
    /\ InstanceFields(type_def) = <<>>
    /\ FieldNames(struct) = <<Reserved>>

(* The full shape: shadow aggregate, Abi binding, default construction,    *)
(* formatting and equality                                                 *)
FullShape(s) ==
    \A item \in {"abi struct", "impl Abi", "impl Default", "impl Debug",
                 "impl PartialEq"} : Emitted(s, item)

(* C6: the full shape is emitted exactly when the model has no GUID, has   *)
(* implicit layout, and no model nested in it at any depth has explicit    *)
(* layout.                                                                 *)
C6_ShapeDispatch ==
    pc = "generated" =>
        (FullShape(struct) <=>
            /\ GuidAbsent(struct)
            /\ ~ExplicitLayout(struct)
            /\ ~ExplicitBelow(struct))

(* The references to fields in the default construction, the equality and  *)
(* the formatting emitted for model s                                      *)
FieldReferences(s) ==
    UNION { {tokens[i].defaults[j].field : j \in 1..Len(tokens[i].defaults)} :
            i \in {i \in 1..Len(tokens) : /\ tokens[i].item = "impl Default"
                                          /\ tokens[i].name = s.name.name} }
    \cup
    UNION { {tokens[i].debug_fields[j].field :
                j \in 1..Len(tokens[i].debug_fields)} :
            i \in {i \in 1..Len(tokens) : /\ tokens[i].item = "impl Debug"
                                          /\ tokens[i].name = s.name.name} }
    \cup
    UNION { {tokens[i].compare_fields[j].field :
                j \in 1..Len(tokens[i].compare_fields)} :
            i \in {i \in 1..Len(tokens) : /\ tokens[i].item = "impl PartialEq"
                                          /\ tokens[i].name = s.name.name} }

(* C7: every field reference emitted for a typedef model in its default    *)
(* construction, equality and formatting is by position, none by           *)
(* identifier.                                                             *)
C7_TypedefPositional ==
    pc = "generated" /\ struct.is_typedef =>
        \A r \in FieldReferences(struct) : DOMAIN r = {"index"}

(* The smallest n >= 2 for which name followed by n is not in `assigned` *)
RECURSIVE SmallestSuffix(_, _, _)
SmallestSuffix(assigned, name, n) ==
    IF name \o Dec(n) \notin assigned THEN n
    ELSE SmallestSuffix(assigned, name, n + 1)

(* C8: the instance fields are stored in metadata order; one whose         *)
(* transliterated name is not yet assigned keeps it, any other is stored   *)
(* as that name followed by the smallest n >= 2 that gives an unassigned   *)
(* name; literal fields take no identifier.                                *)
C8_Deduplication ==
    Built =>
        \A s \in Closure(struct) :
            LET instance == InstanceFields(s.name.def) IN
            instance # <<>> =>
                /\ Len(s.fields) = Len(instance)
                /\ \A i \in 1..Len(instance) :
                      LET name == to_snake(instance[i].name)
                          assigned == {s.fields[j][1] : j \in 1..(i - 1)}
                      IN  /\ s.fields[i][2].kind = instance[i].t.kind
                          /\ s.fields[i][1] =
                                IF name \notin assigned THEN name
                                ELSE name \o Dec(SmallestSuffix(assigned, name, 2))

(* C8 witness: after a field stored as count2, two fields transliterating  *)
(* to count have been stored as count and count3.                          *)
C8_Witness ==
    /\ pc = "built"
    /\ RawNames(type_def) = << <<"c", "o", "u", "n", "t", "2">>,
                               <<"C", "o", "u", "n", "t">>,
                               <<"c", "o", "u", "n", "t">> >>
    /\ type_def.fields[1].t.kind.tag = "U8"
    /\ ~type_def.fields[3].literal
    /\ FieldNames(struct) = << <<"c", "o", "u", "n", "t", "2">>,
                               <<"c", "o", "u", "n", "t">>,
                               <<"c", "o", "u", "n", "t", "3">> >>

C10_NestedNaming ==
    Built =>
        \A s \in Closure(struct) :
            LET defs == s.name.def.nested IN
            /\ Cardinality(DOMAIN s.nested) = Len(defs)
            /\ \A i \in 1..Len(defs) :
                  /\ defs[i].name \in DOMAIN s.nested
                  /\ s.nested[defs[i].name].name.def = defs[i]
                  /\ s.nested[defs[i].name].name.name =
                        s.name.name \o <<"_">> \o Dec(i - 1)

(* C10 witness: a definition with two nested definitions, the first of     *)
(* which nests a third, has been built.                                    *)
C10_Witness ==
    /\ pc = "built"
    /\ Len(type_def.nested) > 1
    /\ Len(type_def.nested[1].nested) = 1
    /\ {struct.nested[k].name.name : k \in DOMAIN struct.nested}
          = {<<"T", "_", "0">>, <<"T", "_", "1">>}

=============================================================================
